---- MODULE Spec2Model ----
(***************************************************************************)
(* QASystem: the query entry point get_result with its lazily built,      *)
(* process-wide pipeline cache (retrievalandgenerator.py), the            *)
(* configuration resolver pinecone_config (utility.py) and the ingestion  *)
(* entry point ingest_documents with its document loader (ingestion.py).  *)
(*                                                                         *)
(* Haystack, Pinecone, the embedding model, the PDF converter and the     *)
(* generator are external collaborators: every call into them either      *)
(* raises or returns, chosen nondeterministically.                         *)
(*                                                                         *)
(* Python strings that the code inspects (a question, a file suffix, the  *)
(* credential) are sequences of one-character strings.  A returned        *)
(* message is the sequence of the parts it is formatted from.             *)
(***************************************************************************)
EXTENDS Integers, Sequences, FiniteSets

(* ------------------------------ bounds -------------------------------- *)

\* calls of get_result / ingest_documents made in one run of the process
MaxCalls == 3
\* longest question, in characters
MaxQLen == 2
\* most documents the PDF converter yields for one file
MaxPages == 1

(* ----------------------------- constants ------------------------------ *)

\* Python's None, as the value of _rag_pipeline, _document_store and of locals
None == 0

Threads == {1, 2}

Whitespace == {" "}
QChars == {" ", "q"}

RECURSIVE SeqsUpTo(_, _)
SeqsUpTo(S, n) ==
    IF n = 0 THEN {<<>>}
    ELSE LET shorter == SeqsUpTo(S, n - 1)
         IN  shorter \cup {Append(s, c) : s \in shorter, c \in S}

Questions == SeqsUpTo(QChars, MaxQLen)

\* the value of PINECONE_API_KEY in os.environ: unset, empty, or a key
EnvChoices ==
    { [set |-> FALSE, val |-> <<>>],
      [set |-> TRUE,  val |-> <<>>],
      [set |-> TRUE,  val |-> <<"k">>] }

\* messages
GuidanceMsg    == "Please provide a valid question."
ErrorPrefix    == "An error occurred: "
NoAnswerMsg    == "I couldn't generate an answer. Please try again."
NoGeneratorMsg == "An error occurred while processing your question."
MissingKeyMsg  ==
    "PINECONE_API_KEY not found. Please set it in your .env file or environment variables."
StoreErrMsg    == "PineconeDocumentStore failed"
CreateErrMsg   == "create_rag_pipeline failed"
WarmUpErrMsg   == "warm_up failed"
RunErrMsg      == "pipeline.run failed"
ReplyMsg       == "reply"

VARIABLES
    env,             \* os.environ["PINECONE_API_KEY"]
    _rag_pipeline,   \* module global: None or the id of the cached Pipeline
    _document_store, \* module global: None or the id of a PineconeDocumentStore
    warmedUp,        \* pipelines whose text_embedder completed warm_up()
    nPipelines,      \* Pipelines returned by create_rag_pipeline so far
    nStores,         \* PineconeDocumentStore objects constructed so far
    pc,              \* per thread: where it is inside get_result
    question,        \* per thread: the argument of get_result
    pipeline,        \* per thread: the local `pipeline` of get_result
    result,          \* per thread: the shape of pipeline.run's result
    exc,             \* per thread: str(e) of the exception being handled
    ret,             \* per thread: what get_result gave its caller
    calls,           \* entry-point calls started so far
    createCalls,     \* invocations of create_rag_pipeline from get_rag_pipeline
    returned,        \* pipelines get_rag_pipeline has returned
    racers,          \* threads that saw _rag_pipeline is None before any assignment
    cfgFailures,     \* times pinecone_config raised for a missing credential
    nonBlankDone,    \* completed get_result calls with a non-blank question
    ranCold,         \* a cached pipeline was run with its embedder not warmed up
    ipc,             \* where the caller is inside ingest_documents
    isrc,            \* ingest_documents: source_path
    ift,             \* ingest_documents: file_types
    iio,             \* what reading each file did in this call (see IOChoices)
    idocs,           \* ingest_documents: the local `documents`
    iloaded,         \* the load step of this call returned a document list
    istore,          \* ingest_documents: the local `document_store`
    iread,           \* names of the files this call opened or converted
    ibuilt,          \* this call built the ingestion pipeline
    iwarmed,         \* this call warmed up the document embedder
    iran,            \* this call ran the ingestion pipeline
    iwritten,        \* chunks this call's pipeline wrote to the store
    iret             \* what ingest_documents gave its caller

qvars == <<env, _rag_pipeline, _document_store, warmedUp, nPipelines, nStores,
           pc, question, pipeline, result, exc, ret, calls, createCalls,
           returned, racers, cfgFailures, nonBlankDone, ranCold>>

ivars == <<ipc, isrc, ift, iio, idocs, iloaded, istore, iread, ibuilt, iwarmed, iran,
           iwritten, iret>>

vars == <<qvars, ivars>>

(* --------------------------- pure functions --------------------------- *)

RECURSIVE LStrip(_)
LStrip(s) ==
    IF s = <<>> THEN s
    ELSE IF Head(s) \in Whitespace THEN LStrip(Tail(s)) ELSE s

RECURSIVE RStrip(_)
RStrip(s) ==
    IF s = <<>> THEN s
    ELSE IF s[Len(s)] \in Whitespace THEN RStrip(SubSeq(s, 1, Len(s) - 1)) ELSE s

\* str.strip()
Strip(s) == RStrip(LStrip(s))

IsBlank_noStrip(q) == Len(q) = 0

\* `not question or not question.strip()`
IsBlank(q) == Len(q) = 0 \/ Len(Strip(q)) = 0

KeyPresent_unchecked(e) == TRUE

\* `os.getenv("PINECONE_API_KEY")` is truthy
KeyPresent(e) == e.set /\ Len(e.val) > 0

CacheMiss_always(p) == TRUE

\* `_rag_pipeline is None`
CacheMiss(p) == p = None

OnException_reraise(msg) == [raised |-> TRUE, value |-> <<msg>>]

\* `except Exception as e: return f"An error occurred: {str(e)}"`
OnException(msg) == [raised |-> FALSE, value |-> <<ErrorPrefix, msg>>]

Returns(msg) == [raised |-> FALSE, value |-> <<msg>>]

NoRet == [raised |-> FALSE, value |-> <<>>]

\* the shapes of pipeline.run's result that get_result tells apart
RunResults == {"falsy", "nogenerator", "noreplies", "replies"}

\* `if result and "generator" in result: ... replies[0] ...`
ExtractAnswer(r) ==
    IF r \in {"falsy", "nogenerator"} THEN Returns(NoGeneratorMsg)
    ELSE IF r = "noreplies" THEN Returns(NoAnswerMsg)
    ELSE Returns(ReplyMsg)

(* ------------------------------ get_result ---------------------------- *)

AllIdle == ipc = "idle" /\ \A t \in Threads : pc[t] = "idle"

Raise(t, msg) ==
    /\ pc' = [pc EXCEPT ![t] = "except"]
    /\ exc' = [exc EXCEPT ![t] = msg]

\* get_result is entered: the blank-question guard, then the try block
Call(t) ==
    /\ pc[t] = "idle"
    /\ calls < MaxCalls
    /\ calls' = calls + 1
    /\ \E q \in Questions :
        /\ question' = [question EXCEPT ![t] = q]
        /\ IF IsBlank(q)
           THEN /\ pc' = [pc EXCEPT ![t] = "done"]
                /\ ret' = [ret EXCEPT ![t] = Returns(GuidanceMsg)]
           ELSE /\ pc' = [pc EXCEPT ![t] = "check"]
                /\ ret' = [ret EXCEPT ![t] = NoRet]
    /\ UNCHANGED <<ivars, env, _rag_pipeline, _document_store, warmedUp, nPipelines,
                   nStores, pipeline, result, exc, createCalls, returned,
                   racers, cfgFailures, nonBlankDone, ranCold>>

\* get_rag_pipeline: `if _rag_pipeline is None:`
CheckCache(t) ==
    /\ pc[t] = "check"
    /\ IF CacheMiss(_rag_pipeline)
       THEN /\ pc' = [pc EXCEPT ![t] = "config"]
            /\ racers' = IF nPipelines = 0 THEN racers \cup {t} ELSE racers
       ELSE /\ pc' = [pc EXCEPT ![t] = "return"]
            /\ UNCHANGED racers
    /\ UNCHANGED <<ivars, env, _rag_pipeline, _document_store, warmedUp, nPipelines,
                   nStores, question, pipeline, result, exc, ret, calls,
                   createCalls, returned, cfgFailures, nonBlankDone, ranCold>>

\* `_document_store = pinecone_config()`: the credential is missing
ConfigMissingKey(t) ==
    /\ pc[t] = "config"
    /\ ~KeyPresent(env)
    /\ Raise(t, MissingKeyMsg)
    /\ cfgFailures' = cfgFailures + 1
    /\ UNCHANGED <<ivars, env, _rag_pipeline, _document_store, warmedUp, nPipelines,
                   nStores, question, pipeline, result, ret, calls,
                   createCalls, returned, racers, nonBlankDone, ranCold>>

\* `_document_store = pinecone_config()`: PineconeDocumentStore(...) returns
ConfigOk(t) ==
    /\ pc[t] = "config"
    /\ KeyPresent(env)
    /\ nStores' = nStores + 1
    /\ _document_store' = nStores + 1
    /\ pc' = [pc EXCEPT ![t] = "create"]
    /\ UNCHANGED <<ivars, env, _rag_pipeline, warmedUp, nPipelines, question,
                   pipeline, result, exc, ret, calls, createCalls, returned,
                   racers, cfgFailures, nonBlankDone, ranCold>>

\* `_document_store = pinecone_config()`: PineconeDocumentStore(...) raises
ConfigStoreFails(t) ==
    /\ pc[t] = "config"
    /\ KeyPresent(env)
    /\ Raise(t, StoreErrMsg)
    /\ UNCHANGED <<ivars, env, _rag_pipeline, _document_store, warmedUp, nPipelines,
                   nStores, question, pipeline, result, ret, calls,
                   createCalls, returned, racers, cfgFailures, nonBlankDone,
                   ranCold>>

\* `_rag_pipeline = create_rag_pipeline(_document_store)` returns a Pipeline
CreateOk(t) ==
    /\ pc[t] = "create"
    /\ createCalls' = createCalls + 1
    /\ nPipelines' = nPipelines + 1
    /\ _rag_pipeline' = nPipelines + 1
    /\ pc' = [pc EXCEPT ![t] = "warm"]
    /\ UNCHANGED <<ivars, env, _document_store, warmedUp, nStores, question,
                   pipeline, result, exc, ret, calls, returned, racers,
                   cfgFailures, nonBlankDone, ranCold>>

\* `_rag_pipeline = create_rag_pipeline(_document_store)` raises
CreateFails(t) ==
    /\ pc[t] = "create"
    /\ createCalls' = createCalls + 1
    /\ Raise(t, CreateErrMsg)
    /\ UNCHANGED <<ivars, env, _rag_pipeline, _document_store, warmedUp, nPipelines,
                   nStores, question, pipeline, result, ret, calls, returned,
                   racers, cfgFailures, nonBlankDone, ranCold>>

\* `_rag_pipeline.get_component("text_embedder").warm_up()` returns
WarmUpOk(t) ==
    /\ pc[t] = "warm"
    /\ warmedUp' = warmedUp \cup {_rag_pipeline}
    /\ pc' = [pc EXCEPT ![t] = "return"]
    /\ UNCHANGED <<ivars, env, _rag_pipeline, _document_store, nPipelines, nStores,
                   question, pipeline, result, exc, ret, calls, createCalls,
                   returned, racers, cfgFailures, nonBlankDone, ranCold>>

\* `_rag_pipeline.get_component("text_embedder").warm_up()` raises
WarmUpFails(t) ==
    /\ pc[t] = "warm"
    /\ Raise(t, WarmUpErrMsg)
    /\ UNCHANGED <<ivars, env, _rag_pipeline, _document_store, warmedUp, nPipelines,
                   nStores, question, pipeline, result, ret, calls,
                   createCalls, returned, racers, cfgFailures, nonBlankDone,
                   ranCold>>

\* `return _rag_pipeline`, bound to get_result's local `pipeline`
ReturnPipeline(t) ==
    /\ pc[t] = "return"
    /\ pipeline' = [pipeline EXCEPT ![t] = _rag_pipeline]
    /\ returned' = returned \cup {_rag_pipeline}
    /\ pc' = [pc EXCEPT ![t] = "run"]
    /\ UNCHANGED <<ivars, env, _rag_pipeline, _document_store, warmedUp, nPipelines,
                   nStores, question, result, exc, ret, calls, createCalls,
                   racers, cfgFailures, nonBlankDone, ranCold>>

\* `result = pipeline.run({...})` returns
RunOk(t) ==
    /\ pc[t] = "run"
    /\ \E r \in RunResults : result' = [result EXCEPT ![t] = r]
    /\ ranCold' = (ranCold \/ pipeline[t] \notin warmedUp)
    /\ pc' = [pc EXCEPT ![t] = "extract"]
    /\ UNCHANGED <<ivars, env, _rag_pipeline, _document_store, warmedUp, nPipelines,
                   nStores, question, pipeline, exc, ret, calls, createCalls,
                   returned, racers, cfgFailures, nonBlankDone>>

\* `result = pipeline.run({...})` raises
RunFails(t) ==
    /\ pc[t] = "run"
    /\ ranCold' = (ranCold \/ pipeline[t] \notin warmedUp)
    /\ Raise(t, RunErrMsg)
    /\ UNCHANGED <<ivars, env, _rag_pipeline, _document_store, warmedUp, nPipelines,
                   nStores, question, pipeline, result, ret, calls,
                   createCalls, returned, racers, cfgFailures, nonBlankDone>>

\* the answer is read off the result and returned
Extract(t) ==
    /\ pc[t] = "extract"
    /\ ret' = [ret EXCEPT ![t] = ExtractAnswer(result[t])]
    /\ pc' = [pc EXCEPT ![t] = "done"]
    /\ nonBlankDone' = nonBlankDone + 1
    /\ UNCHANGED <<ivars, env, _rag_pipeline, _document_store, warmedUp, nPipelines,
                   nStores, question, pipeline, result, exc, calls,
                   createCalls, returned, racers, cfgFailures, ranCold>>

\* the except clause of get_result
Except(t) ==
    /\ pc[t] = "except"
    /\ ret' = [ret EXCEPT ![t] = OnException(exc[t])]
    /\ pc' = [pc EXCEPT ![t] = "done"]
    /\ nonBlankDone' = nonBlankDone + 1
    /\ UNCHANGED <<ivars, env, _rag_pipeline, _document_store, warmedUp, nPipelines,
                   nStores, question, pipeline, result, exc, calls,
                   createCalls, returned, racers, cfgFailures, ranCold>>

\* the caller has the return value; the frame of get_result is gone
Finish(t) ==
    /\ pc[t] = "done"
    /\ pc' = [pc EXCEPT ![t] = "idle"]
    /\ question' = [question EXCEPT ![t] = <<>>]
    /\ pipeline' = [pipeline EXCEPT ![t] = None]
    /\ result' = [result EXCEPT ![t] = "none"]
    /\ exc' = [exc EXCEPT ![t] = ""]
    /\ ret' = [ret EXCEPT ![t] = NoRet]
    /\ UNCHANGED <<ivars, env, _rag_pipeline, _document_store, warmedUp, nPipelines,
                   nStores, calls, createCalls, returned, racers, cfgFailures,
                   nonBlankDone, ranCold>>

Step(t) ==
    \/ CheckCache(t)
    \/ ConfigMissingKey(t)
    \/ ConfigOk(t)
    \/ ConfigStoreFails(t)
    \/ CreateOk(t)
    \/ CreateFails(t)
    \/ WarmUpOk(t)
    \/ WarmUpFails(t)
    \/ ReturnPipeline(t)
    \/ RunOk(t)
    \/ RunFails(t)
    \/ Extract(t)
    \/ Except(t)
    \/ Finish(t)

(* ------------------------------ file system --------------------------- *)

\* Path.suffix values
Txt    == <<".", "t", "x", "t">>
Pdf    == <<".", "p", "d", "f">>
PdfUp  == <<".", "P", "D", "F">>
Md     == <<".", "m", "d">>

\* str.lower(), on the letters that occur in the suffixes above
LowerChar(c) ==
    CASE c = "T" -> "t"
      [] c = "X" -> "x"
      [] c = "P" -> "p"
      [] c = "D" -> "d"
      [] c = "F" -> "f"
      [] c = "M" -> "m"
      [] OTHER -> c

Lower(s) == [i \in DOMAIN s |-> LowerChar(s[i])]

File(n, sfx) == [name |-> n, suffix |-> sfx, isFile |-> TRUE]
SubDir(n, sfx) == [name |-> n, suffix |-> sfx, isFile |-> FALSE]

\* the paths a caller passes as source_path, and what is on disk there
FS ==
    [ missing  |-> [kind |-> "missing", entry |-> File("missing", <<>>),
                    children |-> <<>>],
      a_txt    |-> [kind |-> "file", entry |-> File("a.txt", Txt),
                    children |-> <<>>],
      c_PDF    |-> [kind |-> "file", entry |-> File("c.PDF", PdfUp),
                    children |-> <<>>],
      notes_md |-> [kind |-> "file", entry |-> File("notes.md", Md),
                    children |-> <<>>],
      empty    |-> [kind |-> "dir", entry |-> SubDir("empty", <<>>),
                    children |-> <<>>],
      data     |-> [kind |-> "dir", entry |-> SubDir("data", <<>>),
                    children |-> << File("a.txt", Txt),
                                    File("c.PDF", PdfUp),
                                    File("notes.md", Md),
                                    SubDir("old.txt", Txt) >>] ]

Paths == DOMAIN FS

\* the file_types argument: None, or a list of extensions
FileTypeChoices ==
    { [given |-> FALSE, list |-> <<>>],
      [given |-> TRUE,  list |-> <<Txt>>],
      [given |-> TRUE,  list |-> <<Pdf>>],
      [given |-> TRUE,  list |-> <<Md, Txt>>] }

\* what opening or converting a file does: IOFail when it raises, otherwise the
\* number of documents it yields (1 for a text file, the pages of a PDF)
IOFail == -1

IOOutcomes(e) ==
    IF ~e.isFile THEN {1}
    ELSE IF Lower(e.suffix) = Txt THEN {IOFail, 1}
    ELSE IF Lower(e.suffix) = Pdf THEN {IOFail} \cup (0 .. MaxPages)
    ELSE {1}

\* one outcome per file a call may touch: the file itself, or a directory's children
Targets(path) ==
    IF FS[path].kind = "file" THEN <<FS[path].entry>> ELSE FS[path].children

IOChoices(path) ==
    { io \in [DOMAIN Targets(path) -> {IOFail} \cup (0 .. MaxPages) \cup {1}] :
        \A i \in DOMAIN Targets(path) : io[i] \in IOOutcomes(Targets(path)[i]) }

(* ---------------------------- document loader ------------------------- *)

Doc(e, k) == [source |-> e.name, page |-> k]

Loaded(ds)   == [exc |-> "none", docs |-> ds]
Failed(name) == [exc |-> name, docs |-> <<>>]

\* `with open(...) as f: content = f.read()`, then one Document with its meta
ReadTxt(e, o) ==
    IF o = IOFail THEN Failed("OSError") ELSE Loaded(<<Doc(e, 1)>>)

\* `PyPDFToDocument().run(sources=[...])["documents"]`, each given its meta
ConvertPdf(e, o) ==
    IF o = IOFail THEN Failed("PdfError")
    ELSE Loaded([k \in 1 .. o |-> Doc(e, k)])

\* `if file_types is None: file_types = ['.txt', '.pdf']`
EffectiveTypes(ft) == IF ~ft.given THEN <<Txt, Pdf>> ELSE ft.list

\* `x in file_types`, file_types a list
InList(x, list) == \E i \in DOMAIN list : list[i] = x

Allowed_anyFile(e, types) == e.isFile

\* `file_path.is_file() and file_path.suffix.lower() in file_types`
Allowed(e, types) == e.isFile /\ InList(Lower(e.suffix), types)

\* the body of the directory loop for one child: the two converters under one
\* try/except that logs and goes on
LoadChild(e, types, o) ==
    IF ~Allowed(e, types) THEN <<>>
    ELSE IF Lower(e.suffix) = Txt THEN ReadTxt(e, o).docs
    ELSE IF Lower(e.suffix) = Pdf THEN ConvertPdf(e, o).docs
    ELSE <<>>

\* the child was opened or handed to the converter
ChildRead(e, types) == Allowed(e, types) /\ Lower(e.suffix) \in {Txt, Pdf}

RECURSIVE LoadFrom(_, _, _, _)
LoadFrom(children, types, io, i) ==
    IF i > Len(children) THEN <<>>
    ELSE LoadChild(children[i], types, io[i]) \o LoadFrom(children, types, io, i + 1)

\* load_documents_from_directory(directory_path, file_types)
LoadDocumentsFromDirectory(path, ft, io) ==
    IF FS[path].kind = "missing" THEN Failed("FileNotFoundError")
    ELSE Loaded(LoadFrom(FS[path].children, EffectiveTypes(ft), io, 1))

\* ingest_documents, `if source.is_file():` branch; file_types is not consulted
LoadSingleFile(e, o) ==
    IF Lower(e.suffix) = Txt THEN ReadTxt(e, o)
    ELSE IF Lower(e.suffix) = Pdf THEN ConvertPdf(e, o)
    ELSE Failed("ValueError: Unsupported file type")

SourceNotFound_silent(path) == Loaded(<<>>)

\* ingest_documents, `else: raise FileNotFoundError(...)`
SourceNotFound(path) == Failed("FileNotFoundError")

\* ingest_documents, "Load documents": file, directory, or neither
LoadSource(path, ft, io) ==
    IF FS[path].kind = "file" THEN LoadSingleFile(FS[path].entry, io[1])
    ELSE IF FS[path].kind = "dir" THEN LoadDocumentsFromDirectory(path, ft, io)
    ELSE SourceNotFound(path)

\* the files the load step opened or converted
FilesRead(path, ft) ==
    IF FS[path].kind = "file"
    THEN IF Lower(FS[path].entry.suffix) \in {Txt, Pdf}
         THEN {FS[path].entry.name} ELSE {}
    ELSE { FS[path].children[i].name : i \in
             { j \in DOMAIN FS[path].children :
                 ChildRead(FS[path].children[j], EffectiveTypes(ft)) } }

NoDocuments_never(docs) == FALSE

\* `if not documents:`
NoDocuments(docs) == Len(docs) = 0

(* --------------------------- ingest_documents ------------------------- *)

NoIRet == [raised |-> FALSE, exc |-> "", status |-> "", count |-> 0]

IRaised(name) == [raised |-> TRUE, exc |-> name, status |-> "", count |-> 0]

\* `return {"status": "warning", ..., "count": 0}`
IWarning == [raised |-> FALSE, exc |-> "", status |-> "warning", count |-> 0]

\* `return {"status": "success", ..., "count": written_count}`
ISuccess(n) == [raised |-> FALSE, exc |-> "", status |-> "success", count |-> n]

NoIO == <<>>

qlocals == <<_rag_pipeline, _document_store, warmedUp, nPipelines, pc,
             question, pipeline, result, exc, ret, createCalls, returned,
             racers, nonBlankDone, ranCold>>

\* ingest_documents(source_path, file_types) is entered
IngestCall ==
    /\ AllIdle
    /\ calls < MaxCalls
    /\ calls' = calls + 1
    /\ \E p \in Paths, ft \in FileTypeChoices :
        /\ isrc' = p
        /\ ift' = ft
    /\ ipc' = "config"
    /\ UNCHANGED <<iio, idocs, iloaded, istore, iread, ibuilt, iwarmed, iran, iwritten,
                   iret, env, nStores, cfgFailures, qlocals>>

\* `document_store = pinecone_config()`: the credential is missing
IngestConfigMissingKey ==
    /\ ipc = "config"
    /\ ~KeyPresent(env)
    /\ iret' = IRaised(MissingKeyMsg)
    /\ cfgFailures' = cfgFailures + 1
    /\ ipc' = "done"
    /\ UNCHANGED <<isrc, ift, iio, idocs, iloaded, istore, iread, ibuilt, iwarmed, iran,
                   iwritten, env, nStores, calls, qlocals>>

\* `document_store = pinecone_config()`: PineconeDocumentStore(...) returns
IngestConfigOk ==
    /\ ipc = "config"
    /\ KeyPresent(env)
    /\ nStores' = nStores + 1
    /\ istore' = nStores + 1
    /\ ipc' = "load"
    /\ UNCHANGED <<isrc, ift, iio, idocs, iloaded, iread, ibuilt, iwarmed, iran,
                   iwritten, iret, env, cfgFailures, calls, qlocals>>

\* `document_store = pinecone_config()`: PineconeDocumentStore(...) raises
IngestConfigStoreFails ==
    /\ ipc = "config"
    /\ KeyPresent(env)
    /\ iret' = IRaised(StoreErrMsg)
    /\ ipc' = "done"
    /\ UNCHANGED <<isrc, ift, iio, idocs, iloaded, istore, iread, ibuilt, iwarmed, iran,
                   iwritten, env, nStores, cfgFailures, calls, qlocals>>

\* "Load documents": the file / directory / neither dispatch and what it loads
IngestLoad ==
    /\ ipc = "load"
    /\ \E io \in IOChoices(isrc) :
        LET r == LoadSource(isrc, ift, io)
        IN  /\ iio' = io
            /\ iread' = FilesRead(isrc, ift)
            /\ IF r.exc = "none"
               THEN /\ idocs' = r.docs
                    /\ iloaded' = TRUE
                    /\ ipc' = "loaded"
                    /\ UNCHANGED iret
               ELSE /\ iret' = IRaised(r.exc)
                    /\ ipc' = "done"
                    /\ UNCHANGED <<idocs, iloaded>>
    /\ UNCHANGED <<isrc, ift, istore, ibuilt, iwarmed, iran, iwritten, env,
                   nStores, cfgFailures, calls, qlocals>>

\* `if not documents: return {"status": "warning", ...}`
IngestCheckDocuments ==
    /\ ipc = "loaded"
    /\ IF NoDocuments(idocs)
       THEN /\ iret' = IWarning
            /\ ipc' = "done"
       ELSE /\ ipc' = "build"
            /\ UNCHANGED iret
    /\ UNCHANGED <<isrc, ift, iio, idocs, iloaded, istore, iread, ibuilt, iwarmed, iran,
                   iwritten, env, nStores, cfgFailures, calls, qlocals>>

\* `pipeline = create_ingestion_pipeline(document_store)`
IngestBuild ==
    /\ ipc = "build"
    /\ \/ /\ ibuilt' = TRUE
          /\ ipc' = "warm"
          /\ UNCHANGED iret
       \/ /\ iret' = IRaised("create_ingestion_pipeline failed")
          /\ ipc' = "done"
          /\ UNCHANGED ibuilt
    /\ UNCHANGED <<isrc, ift, iio, idocs, iloaded, istore, iread, iwarmed, iran,
                   iwritten, env, nStores, cfgFailures, calls, qlocals>>

\* `pipeline.get_component("embedder").warm_up()`
IngestWarmUp ==
    /\ ipc = "warm"
    /\ \/ /\ iwarmed' = TRUE
          /\ ipc' = "run"
          /\ UNCHANGED iret
       \/ /\ iret' = IRaised(WarmUpErrMsg)
          /\ ipc' = "done"
          /\ UNCHANGED iwarmed
    /\ UNCHANGED <<isrc, ift, iio, idocs, iloaded, istore, iread, ibuilt, iran,
                   iwritten, env, nStores, cfgFailures, calls, qlocals>>

\* `result = pipeline.run(...)`, then written_count and the success dictionary;
\* the writer reports documents_written or, when it does not, len(documents) is used
IngestRun ==
    /\ ipc = "run"
    /\ iran' = TRUE
    /\ \E w \in 0 .. (Len(idocs) + 1) :
        /\ iwritten' = w
        /\ \/ \E reported \in BOOLEAN :
                iret' = ISuccess(IF reported THEN w ELSE Len(idocs))
           \/ iret' = IRaised(RunErrMsg)
    /\ ipc' = "done"
    /\ UNCHANGED <<isrc, ift, iio, idocs, iloaded, istore, iread, ibuilt, iwarmed, env,
                   nStores, cfgFailures, calls, qlocals>>

\* the caller has the result (or the exception); the frame is gone
IngestFinish ==
    /\ ipc = "done"
    /\ ipc' = "idle"
    /\ isrc' = "missing"
    /\ ift' = [given |-> FALSE, list |-> <<>>]
    /\ iio' = NoIO
    /\ idocs' = <<>>
    /\ iloaded' = FALSE
    /\ istore' = None
    /\ iread' = {}
    /\ ibuilt' = FALSE
    /\ iwarmed' = FALSE
    /\ iran' = FALSE
    /\ iwritten' = 0
    /\ iret' = NoIRet
    /\ UNCHANGED <<env, nStores, cfgFailures, calls, qlocals>>

Ingest ==
    \/ IngestCall
    \/ IngestConfigMissingKey
    \/ IngestConfigOk
    \/ IngestConfigStoreFails
    \/ IngestLoad
    \/ IngestCheckDocuments
    \/ IngestBuild
    \/ IngestWarmUp
    \/ IngestRun
    \/ IngestFinish

(* --------------------------- specifications --------------------------- *)

Init ==
    /\ env \in EnvChoices
    /\ _rag_pipeline = None
    /\ _document_store = None
    /\ warmedUp = {}
    /\ nPipelines = 0
    /\ nStores = 0
    /\ pc = [t \in Threads |-> "idle"]
    /\ question = [t \in Threads |-> <<>>]
    /\ pipeline = [t \in Threads |-> None]
    /\ result = [t \in Threads |-> "none"]
    /\ exc = [t \in Threads |-> ""]
    /\ ret = [t \in Threads |-> NoRet]
    /\ calls = 0
    /\ createCalls = 0
    /\ returned = {}
    /\ racers = {}
    /\ cfgFailures = 0
    /\ nonBlankDone = 0
    /\ ranCold = FALSE
    /\ ipc = "idle"
    /\ isrc = "missing"
    /\ ift = [given |-> FALSE, list |-> <<>>]
    /\ iio = NoIO
    /\ idocs = <<>>
    /\ iloaded = FALSE
    /\ istore = None
    /\ iread = {}
    /\ ibuilt = FALSE
    /\ iwarmed = FALSE
    /\ iran = FALSE
    /\ iwritten = 0
    /\ iret = NoIRet

\* one caller: an entry point is called only when no call is in progress
CallSeq(t) == AllIdle /\ Call(t)

Next == Ingest \/ \E t \in Threads : CallSeq(t) \/ Step(t)

Spec == Init /\ [][Next]_vars

\* two threads call get_result with no synchronisation
NextConc == \E t \in Threads : Call(t) \/ Step(t)

SpecConc == Init /\ [][NextConc]_vars

(* ------------------------------- claims ------------------------------- *)

\* "empty or whitespace-only", stated without str.strip()
AllWhitespace(q) == \A i \in DOMAIN q : q[i] \in Whitespace

CredentialAbsent == ~env.set \/ env.val = <<>>

\* the load step of the current ingest_documents call has been executed
LoadActed == ipc \in {"loaded", "build", "warm", "run"} \/ (ipc = "done" /\ istore # None)

\* documents in the loaded list that come from the file named n
DocsFrom(n) == Cardinality({i \in DOMAIN idocs : idocs[i].source = n})

\* C1 as stated: once a get_result call with a non-blank question has completed,
\* create_rag_pipeline has been invoked exactly once and the cache is READY.
C1_ExactlyOnce ==
    nonBlankDone >= 1 => (createCalls = 1 /\ _rag_pipeline # None)

\* C1 amended: with sequential callers create_rag_pipeline returns a pipeline at
\* most once; initialization is attempted only while the cache is UNINITIALIZED
\* (an attempt that raises before the assignment leaves it so, and the next call
\* tries again); once set, _rag_pipeline is the one instance every call is given
\* and it is never None again.
C1_AtMostOnce ==
    /\ nPipelines <= 1
    /\ nPipelines = 1 => _rag_pipeline = 1
    /\ nPipelines = 0 => _rag_pipeline = None
    /\ returned \subseteq {1}
    /\ \A t \in Threads :
        /\ pc[t] \in {"config", "create"} => _rag_pipeline = None
        /\ pc[t] \in {"run", "extract"} => pipeline[t] = 1

C1_Witness ==
    /\ createCalls = 1
    /\ nonBlankDone >= 2
    /\ \E t \in Threads : pc[t] = "run" /\ pipeline[t] = 1

\* C2: get_result never raises: a call that has finished gave its caller a
\* string, and when any step of it failed that string is the error indicator
\* followed by the failure's message.
C2_NeverRaises ==
    \A t \in Threads :
        pc[t] = "done" =>
            /\ ~ret[t].raised
            /\ ret[t].value # <<>>
            /\ exc[t] # "" => ret[t].value = <<ErrorPrefix, exc[t]>>

C2_Witness ==
    \E t \in Threads :
        /\ pc[t] = "done"
        /\ exc[t] = RunErrMsg
        /\ ret[t] = [raised |-> FALSE, value |-> <<ErrorPrefix, RunErrMsg>>]

\* C3: a call with an empty or whitespace-only question returns the guidance
\* string at once and changes nothing of the pipeline cache or what it builds.
C3_BlankShortCircuit ==
    [][ \A t \in Threads :
          (pc[t] = "idle" /\ pc'[t] # "idle" /\ AllWhitespace(question'[t])) =>
              /\ pc'[t] = "done"
              /\ ret'[t] = [raised |-> FALSE, value |-> <<GuidanceMsg>>]
              /\ UNCHANGED <<_rag_pipeline, _document_store, warmedUp,
                             nPipelines, nStores, createCalls, returned>> ]_vars

C3_Witness ==
    \E t \in Threads :
        /\ pc[t] = "done"
        /\ question[t] = <<" ">>
        /\ ret[t].value = <<GuidanceMsg>>
        /\ _rag_pipeline # None

\* C4 as stated: ingest_documents on a path that does not exist fails with
\* FileNotFoundError.
C4_AlwaysNotFound ==
    (ipc = "done" /\ FS[isrc].kind = "missing") =>
        (iret.raised /\ iret.exc = "FileNotFoundError")

\* C4 amended: ingest_documents on a path that does not exist always raises and
\* never returns a result dictionary, reads no file, builds no pipeline and
\* writes nothing; the error is FileNotFoundError whenever pinecone_config
\* returned a store, and otherwise pinecone_config's own error.
C4_MissingPathRaises ==
    (ipc # "idle" /\ FS[isrc].kind = "missing") =>
        /\ ipc \in {"config", "load", "done"}
        /\ ~ibuilt /\ ~iwarmed /\ ~iran
        /\ iwritten = 0
        /\ iread = {}
        /\ ipc = "done" =>
            /\ iret.raised
            /\ iret.status = ""
            /\ istore # None => iret.exc = "FileNotFoundError"
            /\ istore = None => iret.exc \in {MissingKeyMsg, StoreErrMsg}

C4_Witness ==
    /\ ipc = "done"
    /\ FS[isrc].kind = "missing"
    /\ istore # None
    /\ iret.raised
    /\ iret.exc = "FileNotFoundError"

\* C5: with the credential absent pinecone_config raises the configuration
\* error and no document store is ever constructed; ingest_documents fails
\* before reading any file, and get_rag_pipeline leaves the cache UNINITIALIZED.
C5_FailFast ==
    CredentialAbsent =>
        /\ nStores = 0
        /\ _rag_pipeline = None
        /\ _document_store = None
        /\ istore = None
        /\ iread = {}
        /\ ~iloaded
        /\ ipc \in {"idle", "config", "done"}
        /\ ipc = "done" =>
            iret = [raised |-> TRUE, exc |-> MissingKeyMsg, status |-> "", count |-> 0]
        /\ \A t \in Threads :
            /\ pc[t] \in {"idle", "check", "config", "except", "done"}
            /\ pc[t] = "except" => exc[t] = MissingKeyMsg

C5_Witness ==
    /\ CredentialAbsent
    /\ nonBlankDone >= 1
    /\ cfgFailures >= 2
    /\ ipc = "done"
    /\ iret.exc = MissingKeyMsg

\* C6 as stated: for a single file the allowed set (file_types, by default .txt
\* and .pdf) decides: an extension in it is not refused as unsupported, and an
\* extension outside it makes the call fail with the unsupported-type error,
\* with no document produced, no file read and nothing written.
C6_AllowedSetDecides ==
    (FS[isrc].kind = "file" /\ LoadActed) =>
        LET unsupported == iret.raised /\ iret.exc = "ValueError: Unsupported file type"
        IN  IF \E i \in DOMAIN EffectiveTypes(ift) :
                   EffectiveTypes(ift)[i] = Lower(FS[isrc].entry.suffix)
            THEN ~unsupported
            ELSE /\ ipc = "done"
                 /\ unsupported
                 /\ idocs = <<>>
                 /\ iread = {}
                 /\ iwritten = 0

\* what C7 expects of the i-th child of the directory: the documents its load
\* produced when its (lower-cased) extension is allowed and the load did not fail
C7_Expected(i, convertible) ==
    LET e == FS[isrc].children[i]
        types == EffectiveTypes(ift)
    IN  IF /\ e.isFile
           /\ \E k \in DOMAIN types : types[k] = Lower(e.suffix)
           /\ convertible => Lower(e.suffix) \in {Txt, Pdf}
           /\ iio[i] # IOFail
        THEN IF Lower(e.suffix) = Pdf THEN iio[i] ELSE 1
        ELSE 0

C8_EmptyIsWarning ==
    /\ (ibuilt \/ iwarmed \/ iran \/ ipc \in {"build", "warm", "run"}) => Len(idocs) > 0
    /\ (ipc = "done" /\ iloaded /\ Len(idocs) = 0) =>
          /\ iret = [raised |-> FALSE, exc |-> "", status |-> "warning", count |-> 0]
          /\ iwritten = 0
    /\ (ipc = "done" /\ iret.status = "warning") =>
          /\ iloaded /\ Len(idocs) = 0 /\ iret.count = 0
    /\ (ipc = "done" /\ iret.status = "success") =>
          /\ ~iret.raised
          /\ ibuilt /\ iwarmed /\ iran
          /\ Len(idocs) > 0

C8_Witness ==
    /\ ipc = "done"
    /\ iloaded
    /\ isrc = "data"
    /\ ~ift.given
    /\ iio[1] = IOFail
    /\ iio[2] = IOFail
    /\ iret.status = "warning"
    /\ iret.count = 0

\* C9: get_rag_pipeline's check and set are separate steps, so with two
\* unsynchronised threads a second pipeline is constructed exactly when a
\* second thread passed the `is None` check before the first assignment: the
\* pipelines constructed never outnumber the threads that raced past the check.
C9_DuplicatesOnlyByRace == nPipelines <= Cardinality(racers)

C9_Witness ==
    /\ nPipelines = 2
    /\ racers = Threads
    /\ \A t \in Threads : pc[t] = "warm"

\* C10 as stated: outside an initialization in progress, a cache that holds a
\* pipeline holds one whose embedder was warmed up, and no call runs a pipeline
\* whose embedder was not.
C10_ReadyIsWarm ==
    /\ (_rag_pipeline # None /\ \A t \in Threads : pc[t] # "warm") =>
          _rag_pipeline \in warmedUp
    /\ ~ranCold

====
